---- MODULE Spec2Model ----
(***************************************************************************)
(* SQL Lab initial state: the reconciliation of the server bootstrap       *)
(* payload with the legacy 'redux' slot of the browser's localStorage, as  *)
(* computed by superset-frontend/src/SqlLab/reducers/getInitialState.ts.   *)
(*                                                                         *)
(* JavaScript values are modelled as follows.                              *)
(*  - A plain data object (an editor, a table, a query, a patch) is a      *)
(*    function whose DOMAIN is the set of its own property names, so that  *)
(*    object spread {...a, ...b} is b @@ a and an absent property differs  *)
(*    from a property that holds undefined.                                *)
(*  - An object used as a keyed collection, whose enumeration order is     *)
(*    observable through Object.values, is a sequence of [key, value]      *)
(*    entries in insertion order; OwnEntries applies the enumeration       *)
(*    order of the language (integer-like keys ascending, then the other   *)
(*    keys in insertion order).                                            *)
(*  - undefined and null in string-valued places are the two reserved      *)
(*    strings Undefined and Null, which no input uses as a proper value.   *)
(*  - The two Date.now() stamps and the pass-through fields (databases,    *)
(*    user, common, messageToasts) are left out of the returned value.     *)
(***************************************************************************)
EXTENDS Integers, Sequences, FiniteSets, TLC

VARIABLES
  localStorage,   \* the 'redux' slot: [present |-> FALSE] or [present |-> TRUE, text |-> ...]
  call,           \* the last call made: its function, its argument and the slot it read
  outcome,        \* "none", "returned" or "threw"
  queryEditors,   \* getInitialState's local queryEditors when the call ended
  tables,         \* getInitialState's local tables when the call ended
  result          \* the value the last call returned

vars == <<localStorage, call, outcome, queryEditors, tables, result>>

(***************************************************************************)
(* Bounds of the model.                                                    *)
(***************************************************************************)
\* The largest integer-like property key the inputs use.
MaxIndex == 3
\* The longest tab history handed to dedupeTabHistory on its own.
MaxHistory == 4
\* The longest legacy queryEditors, tables and queries collections.
MaxLegacyEditors == 2
MaxLegacyTables == 3
MaxLegacyQueries == 2

(***************************************************************************)
(* JavaScript values.                                                      *)
(***************************************************************************)
Undefined == "undefined"
Null == "null"
EmptyObj == [f \in {} |-> TRUE]

Has(o, f) == f \in DOMAIN o
\* o.f
Field(o, f) == IF f \in DOMAIN o THEN o[f] ELSE Undefined
\* ToBoolean of a string-valued place
Truthy(s) == s \notin {Undefined, Null, ""}
\* a || b
Or(a, b) == IF Truthy(a) THEN a ELSE b
\* const { f, ...rest } = o
Rest(o, f) == [k \in (DOMAIN o) \ {f} |-> o[k]]

\* A value that is a number in one place and a string in another (a table id)
\* carries its type.
Num(n) == [num |-> n]
Str(t) == [str |-> t]

Digit == <<"0", "1", "2", "3", "4", "5", "6", "7", "8", "9">>
\* Number.prototype.toString of a non-negative integer
RECURSIVE toString(_)
toString(n) ==
  IF n < 10 THEN Digit[n + 1] ELSE toString(n \div 10) \o Digit[(n % 10) + 1]

\* ToPropertyKey of a number or a string
PropertyKey(v) == IF Has(v, "num") THEN toString(v.num) ELSE v.str

\* A property key that is a canonical array index.
IsArrayIndex(k) == \E n \in 0..MaxIndex : toString(n) = k

\* Keyed collections: sequences of [key, value] in insertion order.
EmptyMap == << >>
HasKey(o, k) == \E i \in DOMAIN o : o[i].key = k
Lookup(o, k) == o[CHOOSE i \in DOMAIN o : o[i].key = k].value
\* ...o[k]: the spread of undefined adds nothing
SpreadOf(o, k) == IF HasKey(o, k) THEN Lookup(o, k) ELSE EmptyObj
\* { ...o, [k]: v } and o[k] = v: an existing key keeps its place
SetKey(o, k, v) ==
  IF HasKey(o, k)
    THEN [i \in DOMAIN o |-> IF o[i].key = k THEN [key |-> k, value |-> v] ELSE o[i]]
    ELSE Append(o, [key |-> k, value |-> v])

RECURSIVE IndexEntries(_, _)
IndexEntries(o, n) ==
  IF n > MaxIndex THEN << >>
  ELSE (IF HasKey(o, toString(n))
          THEN <<[key |-> toString(n), value |-> Lookup(o, toString(n))]>>
          ELSE << >>) \o IndexEntries(o, n + 1)

IsNamedEntry(e) == ~IsArrayIndex(e.key)

\* OrdinaryOwnPropertyKeys: integer-like keys ascending, then insertion order
OwnEntries(o) == IndexEntries(o, 0) \o SelectSeq(o, IsNamedEntry)
\* Object.values(o)
ObjectValues(o) == [i \in 1..Len(OwnEntries(o)) |-> OwnEntries(o)[i].value]
ObjectKeys(o) == [i \in 1..Len(OwnEntries(o)) |-> OwnEntries(o)[i].key]

(***************************************************************************)
(* dedupeTabHistory                                                        *)
(***************************************************************************)
\* result.slice(-1)[0]
LastOf(s) == IF s = << >> THEN Undefined ELSE s[Len(s)]

\* (a variant that drops every id already kept)
DedupeStepUnique(acc, tabId) ==
  IF \E i \in DOMAIN acc : acc[i] = tabId THEN acc ELSE Append(acc, tabId)

DedupeStep(acc, tabId) == IF LastOf(acc) = tabId THEN acc ELSE Append(acc, tabId)

RECURSIVE Reduce(_, _, _)
Reduce(s, i, acc) ==
  IF i > Len(s) THEN acc ELSE Reduce(s, i + 1, DedupeStep(acc, s[i]))

dedupeTabHistory(tabHistory) == Reduce(tabHistory, 1, << >>)

(***************************************************************************)
(* getInitialState: the server-sourced state                               *)
(***************************************************************************)
defaultQueryEditor(conf) ==
  [ loaded |-> TRUE,
    name |-> "Untitled query",
    sql |-> "SELECT *\nFROM\nWHERE",
    latestQueryId |-> Null,
    autorun |-> FALSE,
    dbId |-> conf.SQLLAB_DEFAULT_DBID,
    queryLimit |-> conf.DEFAULT_SQLLAB_LIMIT,
    hideLeftBar |-> FALSE,
    remoteId |-> Null ]

\* The editor of the active tab. A bootstrap payload without active_tab has
\* no "active_tab" field.
ActiveEditor(activeTab) ==
  [ id |-> toString(activeTab.id),
    loaded |-> TRUE,
    name |-> activeTab.label,
    sql |-> Or(activeTab.sql, ""),
    selectedText |-> Undefined,
    latestQueryId |-> IF Has(activeTab, "latest_query")
                        THEN activeTab.latest_query.id ELSE Null,
    remoteId |-> IF Has(activeTab, "saved_query") /\ activeTab.saved_query.id # 0
                   THEN activeTab.saved_query.id ELSE Null,
    autorun |-> activeTab.autorun,
    templateParams |-> Or(Field(activeTab, "template_params"), Undefined),
    dbId |-> activeTab.database_id,
    schema |-> activeTab.schema,
    queryLimit |-> activeTab.query_limit,
    hideLeftBar |-> activeTab.hide_left_bar ]

\* dummy state, actual state will be loaded on tab switch
PlaceholderEditor(conf, tab) ==
  [id |-> toString(tab.id), loaded |-> FALSE, name |-> tab.label]
    @@ defaultQueryEditor(conf)

ServerEditor(b, tab) ==
  IF Has(b, "active_tab") /\ b.active_tab.id = tab.id
    THEN ActiveEditor(b.active_tab)
    ELSE PlaceholderEditor(b.common.conf, tab)

\* tabStateIds.forEach(...)
RECURSIVE ServerEditors(_, _, _)
ServerEditors(b, i, acc) ==
  IF i > Len(b.tab_state_ids) THEN acc
  ELSE LET queryEditor == ServerEditor(b, b.tab_state_ids[i])
       IN ServerEditors(b, i + 1, SetKey(acc, queryEditor.id, queryEditor))

\* A table schema whose description is null has no "description" field.
ServerTable(tableSchema) ==
  [ dbId |-> tableSchema.database_id,
    queryEditorId |-> toString(tableSchema.tab_state_id),
    schema |-> tableSchema.schema,
    name |-> tableSchema.table,
    expanded |-> tableSchema.expanded,
    id |-> Num(tableSchema.id),
    dataPreviewQueryId |-> Field(tableSchema.description, "dataPreviewQueryId"),
    persistData |-> Rest(tableSchema.description, "dataPreviewQueryId"),
    initialized |-> TRUE ]

RECURSIVE ServerTablesFrom(_, _, _)
ServerTablesFrom(schemas, i, acc) ==
  IF i > Len(schemas) THEN acc
  ELSE ServerTablesFrom(schemas, i + 1,
         IF Has(schemas[i], "description")
           THEN SetKey(acc, toString(schemas[i].id), ServerTable(schemas[i]))
           ELSE acc)

ServerTables(b) ==
  IF Has(b, "active_tab")
    THEN ServerTablesFrom(b.active_tab.table_schemas, 1, EmptyMap)
    ELSE EmptyMap

\* const tabHistory = activeTab ? [activeTab.id.toString()] : []
ServerTabHistory(b) ==
  IF Has(b, "active_tab") THEN <<toString(b.active_tab.id)>> ELSE << >>

\* const queries = { ...queries_ }
ServerQueries(b) == IF Has(b, "queries") THEN OwnEntries(b.queries) ELSE EmptyMap

(***************************************************************************)
(* getInitialState: the legacy overlay                                     *)
(***************************************************************************)
\* localStorage.getItem('redux'): the text, or null
GetItem(storage) == IF storage.present THEN storage.text ELSE [syntax |-> "null"]
\* The texts of the model: the empty string, a text that is not JSON, and
\* the JSON texts, each held as the value it denotes.
TextTruthy(text) == text.syntax \notin {"null", "empty"}
\* JSON.parse
JSONParse(text) ==
  IF text.syntax = "json" THEN [threw |-> FALSE, value |-> text.value]
                          ELSE [threw |-> TRUE]
\* sqlLabCacheData?.sqlLab is truthy: the parsed value is an object whose
\* sqlLab property is an object
HasSqlLab(value) == value.type = "object" /\ Has(value.props, "sqlLab")

\* sqlLab.unsavedQueryEditor || unsavedQueryEditor
LegacyUnsaved(sqlLab) ==
  IF Has(sqlLab, "unsavedQueryEditor") THEN sqlLab.unsavedQueryEditor ELSE EmptyObj

\* (a variant that spreads the patch into every legacy editor)
UnsavedPatchAlways(unsaved, qe) == unsaved

\* ...(unsavedQueryEditor.id === qe.id && unsavedQueryEditor)
UnsavedPatchFor(unsaved, qe) ==
  IF Field(unsaved, "id") = Field(qe, "id") THEN unsaved ELSE EmptyObj

\* name: qe.title || qe.name
LegacyName(qe) == [name |-> Or(Field(qe, "title"), Field(qe, "name"))]

LocalStorageStamp == [inLocalStorage |-> TRUE, loaded |-> TRUE]

\* (a variant that stamps before the legacy fields are spread)
MergeEditorStampFirst(existing, qe, unsaved) ==
  UnsavedPatchFor(unsaved, qe) @@ LegacyName(qe) @@ qe @@ LocalStorageStamp @@ existing

\* The merged editor of one legacy entry (later spreads win).
MergeEditor(existing, qe, unsaved) ==
  LocalStorageStamp @@ UnsavedPatchFor(unsaved, qe) @@ LegacyName(qe) @@ qe @@ existing

\* sqlLab.queryEditors.forEach(...)
RECURSIVE OverlayEditors(_, _, _, _)
OverlayEditors(legacy, i, unsaved, acc) ==
  IF i > Len(legacy) THEN acc
  ELSE OverlayEditors(legacy, i + 1, unsaved,
         SetKey(acc, legacy[i].id,
                MergeEditor(SpreadOf(acc, legacy[i].id), legacy[i], unsaved)))

\* const expanded = !expandedTables.has(table.queryEditorId)
Expanded(expandedTables, table) == table.queryEditorId \notin expandedTables

\* (a variant in which the legacy record's expanded wins)
MergeTableKeepExpanded(existing, table, expanded) ==
  table @@ [expanded |-> expanded] @@ existing

\* { ...tables[table.id], ...table, expanded }
MergeTable(existing, table, expanded) == [expanded |-> expanded] @@ table @@ existing

\* sqlLab.tables.reduce(..., tables): each entry is merged onto the table the
\* server supplied under its id, not onto an earlier entry of the reduction
RECURSIVE OverlayTables(_, _, _, _, _)
OverlayTables(legacy, i, expandedTables, serverTables, merged) ==
  IF i > Len(legacy) THEN merged
  ELSE LET table == legacy[i]
           expanded == Expanded(expandedTables, table)
       IN OverlayTables(legacy, i + 1,
            IF expanded THEN expandedTables \cup {table.queryEditorId}
                        ELSE expandedTables,
            serverTables,
            SetKey(merged, PropertyKey(table.id),
                   MergeTable(SpreadOf(serverTables, PropertyKey(table.id)),
                              table, expanded)))

\* queries[query.id] = { ...query, inLocalStorage: true }
StampQuery(query) == [inLocalStorage |-> TRUE] @@ query
\* (a variant that keeps the key of the legacy map)
QueryKeyOfMap(key, query) == key
QueryKey(key, query) == query.id

\* Object.values(sqlLab.queries).forEach(...)
RECURSIVE OverlayQueries(_, _, _)
OverlayQueries(entries, i, acc) ==
  IF i > Len(entries) THEN acc
  ELSE OverlayQueries(entries, i + 1,
         SetKey(acc, QueryKey(entries[i].key, entries[i].value),
                StampQuery(entries[i].value)))

\* The fields of sqlLab the overlay dereferences; a missing one is a TypeError.
OverlayFields == {"tables", "queries", "tabHistory"}

\* The returned sqlLab slice and its siblings.
Assemble(editors, tbls, queries, tabHistory, unsaved) ==
  [ activeSouthPaneTab |-> "Results",
    alerts |-> << >>,
    offline |-> FALSE,
    queries |-> queries,
    queryEditors |-> ObjectValues(editors),
    tabHistory |-> dedupeTabHistory(tabHistory),
    tables |-> ObjectValues(tbls),
    queryCostEstimates |-> EmptyObj,
    unsavedQueryEditor |-> unsaved,
    localStorageUsageInKilobytes |-> 0 ]

\* A call that returns: its locals and the value it returns.
Return(editors, tbls, queries, tabHistory, unsaved, removeItem) ==
  [ threw |-> FALSE, removeItem |-> removeItem,
    queryEditors |-> editors,
    tables |-> tbls,
    result |-> Assemble(editors, tbls, queries, tabHistory, unsaved) ]

\* The call on server-sourced state only.
ServerOnly(b, removeItem) ==
  Return(ServerEditors(b, 1, EmptyMap), ServerTables(b), ServerQueries(b),
         ServerTabHistory(b), EmptyObj, removeItem)

Thrown == [threw |-> TRUE, removeItem |-> FALSE]

\* (a variant that takes the migration as done only when the tables are gone too)
MigrationDoneNoTables(sqlLab) ==
  Len(sqlLab.queryEditors) = 0 /\ (Has(sqlLab, "tables") => Len(sqlLab.tables) = 0)

\* sqlLab.queryEditors.length === 0
MigrationDone(sqlLab) == Len(sqlLab.queryEditors) = 0

\* (a variant that removes the slot once it has merged it)
OverlayThenRemove(b, sqlLab) ==
  Return(OverlayEditors(sqlLab.queryEditors, 1, LegacyUnsaved(sqlLab),
                        ServerEditors(b, 1, EmptyMap)),
         OverlayTables(sqlLab.tables, 1, {}, ServerTables(b), ServerTables(b)),
         OverlayQueries(OwnEntries(sqlLab.queries), 1, ServerQueries(b)),
         ServerTabHistory(b) \o sqlLab.tabHistory,
         LegacyUnsaved(sqlLab), TRUE)

\* The overlay of a legacy payload with editors in it.
Overlay(b, sqlLab) ==
  Return(OverlayEditors(sqlLab.queryEditors, 1, LegacyUnsaved(sqlLab),
                        ServerEditors(b, 1, EmptyMap)),
         OverlayTables(sqlLab.tables, 1, {}, ServerTables(b), ServerTables(b)),
         OverlayQueries(OwnEntries(sqlLab.queries), 1, ServerQueries(b)),
         ServerTabHistory(b) \o sqlLab.tabHistory,
         LegacyUnsaved(sqlLab), FALSE)

\* The whole call: what it returns or that it throws, and whether it removes
\* the slot.
getInitialState(b, storage) ==
  LET localStorageData == GetItem(storage)
  IN IF ~TextTruthy(localStorageData) THEN ServerOnly(b, FALSE)
     ELSE LET parsed == JSONParse(localStorageData)
          IN IF parsed.threw THEN Thrown
             ELSE IF ~HasSqlLab(parsed.value) THEN ServerOnly(b, FALSE)
             ELSE LET sqlLab == parsed.value.props.sqlLab
                  IN IF ~Has(sqlLab, "queryEditors") THEN Thrown
                     ELSE IF MigrationDone(sqlLab)
                       THEN ServerOnly(b, TRUE)
                     ELSE IF ~(OverlayFields \subseteq DOMAIN sqlLab) THEN Thrown
                     ELSE Overlay(b, sqlLab)

Absent == [present |-> FALSE]
NoResult == EmptyObj

\* One call of getInitialState with bootstrap payload b.
GetInitialState(b) ==
  \E r \in {getInitialState(b, localStorage)} :
     /\ call' = [fn |-> "getInitialState", arg |-> b, storage |-> localStorage]
     /\ localStorage' = IF r.removeItem THEN Absent ELSE localStorage
     /\ outcome' = IF r.threw THEN "threw" ELSE "returned"
     /\ queryEditors' = IF r.threw THEN EmptyMap ELSE r.queryEditors
     /\ tables' = IF r.threw THEN EmptyMap ELSE r.tables
     /\ result' = IF r.threw THEN NoResult ELSE r.result

\* One call of the exported dedupeTabHistory.
DedupeTabHistory(h) ==
  /\ call' = [fn |-> "dedupeTabHistory", arg |-> h, storage |-> localStorage]
  /\ outcome' = "returned"
  /\ result' = dedupeTabHistory(h)
  /\ UNCHANGED <<localStorage, queryEditors, tables>>

(***************************************************************************)
(* Inputs: bootstrap payloads                                              *)
(***************************************************************************)
Conf == [SQLLAB_DEFAULT_DBID |-> 1, DEFAULT_SQLLAB_LIMIT |-> 1000]
Common == [conf |-> Conf, flash_messages |-> << >>]

TabRecord(id) == [id |-> id, label |-> "Query " \o toString(id)]
TabRecords(ids) == [i \in 1..Len(ids) |-> TabRecord(ids[i])]

ActiveTabRecord(id, schemas) ==
  [ id |-> id, label |-> "Query " \o toString(id), sql |-> "SELECT 1",
    saved_query |-> [id |-> 7], autorun |-> TRUE, database_id |-> 2,
    schema |-> "main", query_limit |-> 100, hide_left_bar |-> TRUE,
    table_schemas |-> schemas ]

TableSchema(id, tab, expanded) ==
  [ id |-> id, tab_state_id |-> tab, database_id |-> 2, schema |-> "main",
    table |-> "t" \o toString(id), expanded |-> expanded,
    description |-> [dataPreviewQueryId |-> "preview", columns |-> "cols"] ]
\* description: null
UndescribedSchema(id, tab) == Rest(TableSchema(id, tab, TRUE), "description")

\* active = 0: the payload carries no active_tab
Payload(ids, active, schemas, queries) ==
  [common |-> Common, tab_state_ids |-> TabRecords(ids), queries |-> queries]
    @@ (IF active = 0 THEN EmptyObj
        ELSE [active_tab |-> ActiveTabRecord(active, schemas)])

ServerQuery(id) == [key |-> id, value |-> [id |-> id, status |-> "success"]]

EditorPayloads ==
  { Payload(<<1, 2>>, 1, << >>, EmptyMap),
    Payload(<<1, 2>>, 2, << >>, EmptyMap),
    Payload(<<2, 1>>, 0, << >>, EmptyMap) }

TablePayloads ==
  { Payload(<<1>>, 1, <<TableSchema(1, 1, TRUE), UndescribedSchema(3, 1)>>, EmptyMap),
    Payload(<<1>>, 1, <<TableSchema(2, 1, TRUE), TableSchema(1, 1, FALSE)>>, EmptyMap),
    Payload(<<1>>, 0, << >>, EmptyMap) }

QueryPayloads ==
  { Payload(<<1>>, 1, << >>, qs) :
      qs \in { EmptyMap, <<ServerQuery("q1")>>, <<ServerQuery("2")>>,
               <<ServerQuery("q1"), ServerQuery("2")>>,
               <<ServerQuery("q2"), ServerQuery("q1")>> } }
    \cup { Rest(Payload(<< >>, 0, << >>, EmptyMap), "queries") }

(***************************************************************************)
(* Inputs: contents of the legacy slot                                     *)
(***************************************************************************)
\* All sequences over S of length lo..hi
SeqsOf(S, lo, hi) == UNION { [1..n -> S] : n \in lo..hi }

\* Every object that has the fields of base and, for each optional field f,
\* either no f or one of the values opt[f].
RECURSIVE Variants(_, _)
Variants(base, opt) ==
  IF DOMAIN opt = {} THEN {base}
  ELSE LET f == CHOOSE g \in DOMAIN opt : TRUE
           rest == Variants(base, Rest(opt, f))
       IN rest \cup { ([x \in {f} |-> v]) @@ r : v \in opt[f], r \in rest }

Stored(value) == [present |-> TRUE, text |-> [syntax |-> "json", value |-> value]]
StoredSqlLab(sqlLab) == Stored([type |-> "object", props |-> [sqlLab |-> sqlLab]])
EmptyText == [present |-> TRUE, text |-> [syntax |-> "empty"]]
MalformedText == [present |-> TRUE, text |-> [syntax |-> "malformed"]]

FullSqlLab(editors, unsaved, tbls, queries, tabHistory) ==
  [queryEditors |-> editors, tables |-> tbls, queries |-> queries,
   tabHistory |-> tabHistory]
    @@ (IF unsaved = EmptyObj THEN EmptyObj ELSE [unsavedQueryEditor |-> unsaved])

\* editors
LegacyEditorEntries ==
  UNION { Variants([id |-> id, sql |-> "legacy sql"],
                   [title |-> {"", "Renamed"}, name |-> {"Old"}])
            \cup { [id |-> id, loaded |-> FALSE, inLocalStorage |-> FALSE],
                   [id |-> id, title |-> "Renamed", loaded |-> FALSE,
                    inLocalStorage |-> FALSE] }
          : id \in {"1", "a"} }

UnsavedPatches ==
  { EmptyObj,
    [id |-> "1", sql |-> "draft"],
    [id |-> "1", name |-> "Draft", loaded |-> FALSE, inLocalStorage |-> FALSE],
    [id |-> "a", name |-> "Draft"],
    [id |-> "2", name |-> "Draft", sql |-> "draft"] }

EditorSlots ==
  { StoredSqlLab(FullSqlLab(es, u, << >>, EmptyMap, << >>)) :
      es \in SeqsOf(LegacyEditorEntries, 1, MaxLegacyEditors), u \in UnsavedPatches }

\* tables
LegacyTableEntries ==
  { [id |-> Str(id), queryEditorId |-> qe, name |-> "legacy", expanded |-> e] :
      id \in {"1", "x", "y"}, qe \in {"1", "a"}, e \in BOOLEAN }

LegacyEditorStub == [id |-> "a", title |-> "Legacy"]

TableSlots ==
  { StoredSqlLab(FullSqlLab(<<LegacyEditorStub>>, EmptyObj, ts, EmptyMap, << >>)) :
      ts \in SeqsOf(LegacyTableEntries, 0, MaxLegacyTables) }

\* queries
LegacyQueryEntries ==
  { [key |-> k, value |-> [id |-> id, status |-> st]] :
      k \in {"q1", "q2", "2"}, id \in {"q1", "q2", "2"}, st \in {"failed", "running"} }

DistinctKeys(m) == \A i, j \in DOMAIN m : m[i].key = m[j].key => i = j

LegacyQueryMaps ==
  { m \in SeqsOf(LegacyQueryEntries, 0, MaxLegacyQueries) : DistinctKeys(m) }

QuerySlots ==
  { StoredSqlLab(FullSqlLab(<<LegacyEditorStub>>, EmptyObj, << >>, m, << >>)) :
      m \in LegacyQueryMaps }

\* tab histories
TabIds == {"1", "2", "a"}
Histories == SeqsOf(TabIds, 0, MaxHistory)

(***************************************************************************)
(* Specifications                                                          *)
(***************************************************************************)
Idle ==
  /\ call = [fn |-> "none"]
  /\ outcome = "none"
  /\ queryEditors = EmptyMap
  /\ tables = EmptyMap
  /\ result = NoResult

\* dedupeTabHistory on its own
InitDedupe == localStorage = Absent /\ Idle
NextDedupe == \E h \in Histories : DedupeTabHistory(h)
SpecDedupe == InitDedupe /\ [][NextDedupe]_vars

\* the editor overlay
InitEditors == localStorage \in EditorSlots /\ Idle
NextEditors == \E b \in EditorPayloads : GetInitialState(b)
SpecEditors == InitEditors /\ [][NextEditors]_vars

\* the table overlay
InitTables == localStorage \in TableSlots /\ Idle
NextTables == \E b \in TablePayloads : GetInitialState(b)
SpecTables == InitTables /\ [][NextTables]_vars

\* the query overlay
InitQueries == localStorage \in QuerySlots /\ Idle
NextQueries == \E b \in QueryPayloads : GetInitialState(b)
SpecQueries == InitQueries /\ [][NextQueries]_vars

\* the slot itself: malformed contents, finished migrations, pending ones
JunkTable == [id |-> Str("x"), queryEditorId |-> "a", name |-> "legacy", expanded |-> TRUE]
JunkQuery == [key |-> "q1", value |-> [id |-> "q1", status |-> "failed"]]

SlotSqlLabs ==
  { FullSqlLab(es, u, ts, qs, h) :
      es \in { << >>, <<LegacyEditorStub>>, <<[id |-> "1", title |-> "Renamed"]>> },
      u \in { EmptyObj, [id |-> "1", sql |-> "draft"] },
      ts \in { << >>, <<JunkTable>> },
      qs \in { EmptyMap, <<JunkQuery>> },
      h \in { << >>, <<"a", "a", "1">> } }

Slots ==
  { EmptyText, MalformedText,
    Stored([type |-> "null"]),
    Stored([type |-> "object", props |-> EmptyObj]),
    StoredSqlLab(EmptyObj),
    StoredSqlLab([queryEditors |-> << >>]),
    StoredSqlLab([queryEditors |-> <<LegacyEditorStub>>]) }
    \cup { StoredSqlLab(l) : l \in SlotSqlLabs }

SlotPayloads ==
  { Payload(<< >>, 0, << >>, EmptyMap),
    Payload(<<1, 2>>, 0, << >>, <<ServerQuery("q1")>>),
    Payload(<<1, 2>>, 1, <<TableSchema(1, 1, TRUE)>>, <<ServerQuery("q1")>>),
    Payload(<<1>>, 1, <<TableSchema(1, 1, FALSE)>>, EmptyMap) }

\* the slot is present at first, so that it is absent only once a call has
\* removed it
Init == localStorage \in Slots /\ Idle
Next == \E b \in SlotPayloads : GetInitialState(b)
Spec == Init /\ [][Next]_vars

(***************************************************************************)
(* What a call read and what it left                                       *)
(***************************************************************************)
Returned(fn) == call.fn = fn /\ outcome = "returned"

\* The slot holds JSON with a sqlLab object.
HoldsSqlLab(storage) ==
  /\ storage.present
  /\ storage.text.syntax = "json"
  /\ HasSqlLab(storage.text.value)
SqlLabOf(storage) == storage.text.value.props.sqlLab

\* The slot holds a sqlLab object whose queryEditors list is empty.
IsCleanSlate(storage) ==
  /\ HoldsSqlLab(storage)
  /\ Has(SqlLabOf(storage), "queryEditors")
  /\ SqlLabOf(storage).queryEditors = << >>

\* The slot holds a sqlLab object of the expected shape with editors in it.
IsPending(storage) ==
  /\ HoldsSqlLab(storage)
  /\ {"queryEditors", "tables", "queries", "tabHistory"} \subseteq DOMAIN SqlLabOf(storage)
  /\ SqlLabOf(storage).queryEditors # << >>

\* The slot is present but its content is not valid JSON, or is valid JSON
\* without the expected sqlLab shape.
IsMalformed(storage) ==
  /\ storage.present
  /\ \/ storage.text.syntax # "json"
     \/ ~HasSqlLab(storage.text.value)
     \/ ~Has(SqlLabOf(storage), "queryEditors")

\* The part of the returned state the claims compare.
Slices(r) ==
  [ queryEditors |-> r.queryEditors, tables |-> r.tables, queries |-> r.queries,
    tabHistory |-> r.tabHistory, unsavedQueryEditor |-> r.unsavedQueryEditor ]

RunStarts(h) == { i \in 1..Len(h) : i = 1 \/ h[i] # h[i - 1] }
\* the j-th position that starts a run
RunStart(h, j) ==
  CHOOSE i \in RunStarts(h) : Cardinality({ k \in RunStarts(h) : k <= i }) = j

(***************************************************************************)
(* C1: dedupeTabHistory returns its input with every maximal run of equal  *)
(* consecutive ids collapsed to its first id: the ids at the positions     *)
(* that start a run, in order. So no two neighbours of the output are      *)
(* equal and ids separated by another id are both kept.                    *)
(***************************************************************************)
C1_AdjacencyOnly ==
  Returned("dedupeTabHistory") =>
    /\ Len(result) = Cardinality(RunStarts(call.arg))
    /\ \A j \in 1..Len(result) : result[j] = call.arg[RunStart(call.arg, j)]
    /\ \A j \in 1..(Len(result) - 1) : result[j] # result[j + 1]

C1_Witness ==
  /\ Returned("dedupeTabHistory")
  /\ call.arg = <<"a", "a", "1", "a">>
  /\ result = <<"a", "1", "a">>

(***************************************************************************)
(* C2: a call that reads a slot whose content is not valid JSON, or valid  *)
(* JSON without the expected sqlLab shape, returns, and returns what the   *)
(* call returns when there is no slot.                                     *)
(***************************************************************************)
C2_MalformedIsNoLegacy ==
  (call.fn = "getInitialState" /\ IsMalformed(call.storage)) =>
    /\ outcome = "returned"
    /\ result = getInitialState(call.arg, Absent).result

(***************************************************************************)
(* C3: a call that reads a sqlLab object with an empty queryEditors list   *)
(* removes the slot and returns the editors, tables, queries, tabHistory   *)
(* and unsavedQueryEditor of the server-only computation, whatever else    *)
(* the legacy payload carries.                                             *)
(***************************************************************************)
C3_CleanSlate ==
  (call.fn = "getInitialState" /\ IsCleanSlate(call.storage)) =>
    /\ outcome = "returned"
    /\ localStorage = Absent
    /\ Slices(result) = Slices(getInitialState(call.arg, Absent).result)
    /\ result.unsavedQueryEditor = EmptyObj
    /\ \A i \in DOMAIN result.queryEditors : ~Has(result.queryEditors[i], "inLocalStorage")

C3_Witness ==
  /\ Returned("getInitialState")
  /\ IsCleanSlate(call.storage)
  /\ Has(SqlLabOf(call.storage), "unsavedQueryEditor")
  /\ SqlLabOf(call.storage).tables # << >>
  /\ SqlLabOf(call.storage).queries # EmptyMap
  /\ SqlLabOf(call.storage).tabHistory # << >>
  /\ call.arg.tab_state_ids # << >>
  /\ localStorage = Absent
  /\ Len(result.queryEditors) = 2
  /\ result.tabHistory = <<"1">>

(***************************************************************************)
(* The overlay a call made, seen from its inputs                           *)
(***************************************************************************)
\* The call returned after overlaying a pending legacy payload.
Overlaid == Returned("getInitialState") /\ IsPending(call.storage)

LegacyEditors == SqlLabOf(call.storage).queryEditors
LegacyEditorIds == { LegacyEditors[i].id : i \in DOMAIN LegacyEditors }
\* the last legacy entry with id k
LastLegacyEditor(k) ==
  LegacyEditors[CHOOSE i \in DOMAIN LegacyEditors :
                  /\ LegacyEditors[i].id = k
                  /\ \A j \in DOMAIN LegacyEditors : LegacyEditors[j].id = k => j <= i]
\* the unsaved patch of the legacy payload, {} when it has none
LegacyPatch ==
  IF Has(SqlLabOf(call.storage), "unsavedQueryEditor")
    THEN SqlLabOf(call.storage).unsavedQueryEditor ELSE EmptyObj
PatchMatches(k) == Has(LegacyPatch, "id") /\ LegacyPatch.id = k

\* the ids of the server's tab records, as editor ids
ServerEditorIds ==
  { toString(call.arg.tab_state_ids[i].id) : i \in DOMAIN call.arg.tab_state_ids }
\* the editor the server-only computation makes for id k
ServerEditorOf(k) == Lookup(ServerEditors(call.arg, 1, EmptyMap), k)

OutputEditorsWithId(k) ==
  { j \in DOMAIN result.queryEditors : result.queryEditors[j].id = k }
\* the output editor with id k
OutputEditor(k) == result.queryEditors[CHOOSE j \in OutputEditorsWithId(k) : TRUE]

Stamped(m) ==
  /\ Has(m, "inLocalStorage") /\ m.inLocalStorage = TRUE
  /\ Has(m, "loaded") /\ m.loaded = TRUE

(***************************************************************************)
(* C4 (as claimed): a legacy editor entry that shares its id with a server *)
(* editor yields a single merged editor whose name is the entry's title    *)
(* when it has one, stamped inLocalStorage = true and loaded = true.       *)
(***************************************************************************)
C4_LegacyTitleIsName ==
  Overlaid =>
    \A i \in DOMAIN LegacyEditors :
      LET qe == LegacyEditors[i]
      IN qe.id \in ServerEditorIds =>
           /\ Cardinality(OutputEditorsWithId(qe.id)) = 1
           /\ Has(qe, "title") => OutputEditor(qe.id).name = qe.title
           /\ Stamped(OutputEditor(qe.id))

(***************************************************************************)
(* C4 (amended): for each id shared by a legacy entry and a server editor  *)
(* the output holds a single merged editor, stamped inLocalStorage = true  *)
(* and loaded = true whatever the entry or a matching patch carries for    *)
(* the two fields; its name is the name of the matching unsaved patch when *)
(* that patch carries one, and otherwise the title of the last legacy      *)
(* entry with the id when that title is non-empty.                         *)
(***************************************************************************)
C4_TitleIsNameUnlessPatched ==
  Overlaid =>
    \A k \in LegacyEditorIds \cap ServerEditorIds :
      /\ Cardinality(OutputEditorsWithId(k)) = 1
      /\ Stamped(OutputEditor(k))
      /\ IF PatchMatches(k) /\ Has(LegacyPatch, "name")
           THEN OutputEditor(k).name = LegacyPatch.name
           ELSE Truthy(Field(LastLegacyEditor(k), "title")) =>
                  OutputEditor(k).name = LastLegacyEditor(k).title

\* a placeholder of the server, renamed by a legacy entry that carries
\* loaded = false, with a matching patch that carries it too
C4_Witness ==
  /\ Overlaid
  /\ "1" \in ServerEditorIds
  /\ ServerEditorOf("1").loaded = FALSE
  /\ Len(LegacyEditors) = 1
  /\ LegacyEditors[1] = [id |-> "1", title |-> "Renamed", loaded |-> FALSE,
                         inLocalStorage |-> FALSE]
  /\ PatchMatches("1") /\ ~Has(LegacyPatch, "name")
  /\ OutputEditor("1").name = "Renamed"
  /\ OutputEditor("1").loaded = TRUE
  /\ OutputEditor("1").inLocalStorage = TRUE

WithoutPatch ==
  getInitialState(call.arg,
    StoredSqlLab(Rest(SqlLabOf(call.storage), "unsavedQueryEditor"))).result.queryEditors

(***************************************************************************)
(* C8: the unsaved patch is overlaid only onto the legacy editor with the  *)
(* patch's id: every other output editor is the editor the same call       *)
(* yields on a legacy payload without unsavedQueryEditor.                  *)
(***************************************************************************)
C8_PatchOnlyOnItsEditor ==
  (Overlaid /\ Has(SqlLabOf(call.storage), "unsavedQueryEditor")) =>
    /\ Len(result.queryEditors) = Len(WithoutPatch)
    /\ \A j \in DOMAIN result.queryEditors :
         ~(result.queryEditors[j].id \in LegacyEditorIds
             /\ PatchMatches(result.queryEditors[j].id))
           => result.queryEditors[j] = WithoutPatch[j]

\* the patch reached legacy editor "1" and left legacy editor "a" and the
\* server's editor "2" alone
C8_Witness ==
  /\ Overlaid
  /\ LegacyPatch = [id |-> "1", sql |-> "draft"]
  /\ LegacyEditorIds = {"1", "a"}
  /\ ServerEditorIds = {"1", "2"}
  /\ OutputEditor("1").sql = "draft"
  /\ OutputEditor("a").sql = "legacy sql"
  /\ OutputEditor("2").sql # "draft"

CarriedByLegacy(k, f) ==
  \/ \E i \in DOMAIN LegacyEditors :
       /\ LegacyEditors[i].id = k
       /\ \/ Has(LegacyEditors[i], f)
          \/ f = "name" /\ Has(LegacyEditors[i], "title")
  \/ PatchMatches(k) /\ Has(LegacyPatch, f)

(***************************************************************************)
(* C9: in the merged editor of a legacy entry that shares its id with a    *)
(* server editor, every field of the server editor other than the stamped  *)
(* inLocalStorage and loaded that neither a legacy entry with the id nor a *)
(* matching patch carries keeps the server editor's value; the name counts *)
(* as carried when the entry has a title or a name.                        *)
(***************************************************************************)
C9_ServerFieldsKept ==
  Overlaid =>
    \A k \in LegacyEditorIds \cap ServerEditorIds :
      \A f \in (DOMAIN ServerEditorOf(k)) \ {"inLocalStorage", "loaded"} :
        ~CarriedByLegacy(k, f) =>
          /\ Has(OutputEditor(k), f)
          /\ OutputEditor(k)[f] = ServerEditorOf(k)[f]

\* the elements of s, without the repeats and without those in seen
RECURSIVE FirstOccurrences(_, _)
FirstOccurrences(s, seen) ==
  IF s = << >> THEN << >>
  ELSE (IF Head(s) \in seen THEN << >> ELSE <<Head(s)>>)
         \o FirstOccurrences(Tail(s), seen \cup {Head(s)})

ServerEditorOrder ==
  FirstOccurrences([i \in DOMAIN call.arg.tab_state_ids |->
                      toString(call.arg.tab_state_ids[i].id)], {})
LegacyEditorOrder ==
  FirstOccurrences([i \in DOMAIN LegacyEditors |-> LegacyEditors[i].id],
                   ServerEditorIds)

DescribedSchemas ==
  IF Has(call.arg, "active_tab")
    THEN SelectSeq(call.arg.active_tab.table_schemas,
                   LAMBDA ts : Has(ts, "description"))
    ELSE << >>
ServerTableOrder ==
  FirstOccurrences([i \in DOMAIN DescribedSchemas |-> toString(DescribedSchemas[i].id)], {})
LegacyTables == SqlLabOf(call.storage).tables
LegacyTableOrder ==
  FirstOccurrences([i \in DOMAIN LegacyTables |-> PropertyKey(LegacyTables[i].id)],
                   { ServerTableOrder[i] : i \in DOMAIN ServerTableOrder })

(***************************************************************************)
(* C7: the output queryEditors and tables are in insertion order: the      *)
(* server's editors in tab_state_ids order and its tables in table_schemas *)
(* order, then those only the legacy payload brings, in legacy order.      *)
(***************************************************************************)
C7_InsertionOrder ==
  Overlaid =>
    /\ [j \in DOMAIN result.queryEditors |-> result.queryEditors[j].id]
         = ServerEditorOrder \o LegacyEditorOrder
    /\ [j \in DOMAIN result.tables |-> PropertyKey(result.tables[j].id)]
         = ServerTableOrder \o LegacyTableOrder

(***************************************************************************)
(* The table overlay, seen from its inputs                                 *)
(***************************************************************************)
LegacyTableKeys == { PropertyKey(LegacyTables[i].id) : i \in DOMAIN LegacyTables }
\* entry i is the first of the legacy list with its queryEditorId
FirstOfItsEditor(i) ==
  \A j \in 1..(i - 1) : LegacyTables[j].queryEditorId # LegacyTables[i].queryEditorId
\* the place of the last legacy entry stored under key k
LastLegacyTable(k) ==
  CHOOSE i \in DOMAIN LegacyTables :
    /\ PropertyKey(LegacyTables[i].id) = k
    /\ \A j \in DOMAIN LegacyTables : PropertyKey(LegacyTables[j].id) = k => j <= i
\* the output table stored under key k
OutputTable(k) ==
  result.tables[CHOOSE j \in DOMAIN result.tables :
                  PropertyKey(result.tables[j].id) = k]
ExpandedLegacyTables(qe) ==
  { k \in LegacyTableKeys :
      OutputTable(k).queryEditorId = qe /\ OutputTable(k).expanded }

(***************************************************************************)
(* C5 (as claimed): for every list of legacy table entries the output      *)
(* table of an entry is expanded exactly when the entry is the first of    *)
(* the list with its queryEditorId, so at most one legacy-sourced table    *)
(* per queryEditorId is expanded.                                          *)
(***************************************************************************)
C5_FirstEntryExpanded ==
  Overlaid =>
    /\ \A i \in DOMAIN LegacyTables :
         OutputTable(PropertyKey(LegacyTables[i].id)).expanded = FirstOfItsEditor(i)
    /\ \A i \in DOMAIN LegacyTables :
         Cardinality(ExpandedLegacyTables(LegacyTables[i].queryEditorId)) <= 1

(***************************************************************************)
(* C5 (amended): the output table of a legacy table id has the             *)
(* queryEditorId of the last legacy entry with that id and is expanded     *)
(* exactly when that last entry is the first of the legacy list with its   *)
(* queryEditorId, whatever expanded value the legacy records or a server   *)
(* table with the id carry; so, when the legacy ids are distinct, a table  *)
(* is expanded exactly when its entry is the first with its queryEditorId, *)
(* and at most one legacy-sourced table per queryEditorId is expanded.     *)
(***************************************************************************)
C5_LastEntryDecides ==
  Overlaid =>
    /\ \A k \in LegacyTableKeys :
         /\ OutputTable(k).queryEditorId = LegacyTables[LastLegacyTable(k)].queryEditorId
         /\ OutputTable(k).expanded = FirstOfItsEditor(LastLegacyTable(k))
    /\ \A i \in DOMAIN LegacyTables :
         Cardinality(ExpandedLegacyTables(LegacyTables[i].queryEditorId)) <= 1

\* three legacy tables with distinct ids, two of one editor: the first is
\* expanded though its record and the server's table of the same id say
\* false, the second is not though its record says true
C5_Witness ==
  /\ Overlaid
  /\ Len(DescribedSchemas) = 2 /\ DescribedSchemas[2].id = 1
  /\ ~DescribedSchemas[2].expanded
  /\ LegacyTables =
       << [id |-> Str("1"), queryEditorId |-> "1", name |-> "legacy", expanded |-> FALSE],
          [id |-> Str("x"), queryEditorId |-> "1", name |-> "legacy", expanded |-> TRUE],
          [id |-> Str("y"), queryEditorId |-> "a", name |-> "legacy", expanded |-> FALSE] >>
  /\ OutputTable("1").expanded
  /\ ~OutputTable("x").expanded
  /\ OutputTable("y").expanded

(***************************************************************************)
(* The query overlay, seen from its inputs                                 *)
(***************************************************************************)
\* the legacy query map as Object.values reads it
LegacyQueries == OwnEntries(SqlLabOf(call.storage).queries)
LegacyQueryKeys == { LegacyQueries[i].key : i \in DOMAIN LegacyQueries }
LegacyQueryIds == { LegacyQueries[i].value.id : i \in DOMAIN LegacyQueries }
\* the last legacy query with id q that Object.values reads
LastLegacyQuery(q) ==
  LegacyQueries[CHOOSE i \in DOMAIN LegacyQueries :
                  /\ LegacyQueries[i].value.id = q
                  /\ \A j \in DOMAIN LegacyQueries :
                       LegacyQueries[j].value.id = q => j <= i].value
SuppliedQueries == IF Has(call.arg, "queries") THEN call.arg.queries ELSE EmptyMap
InLocalStorage(query) == [inLocalStorage |-> TRUE] @@ query

(***************************************************************************)
(* C6 (as claimed): the output query map holds, at the key k of every      *)
(* entry of the legacy query map, that entry stamped inLocalStorage =      *)
(* true; server queries whose key is not a legacy key are as supplied.     *)
(***************************************************************************)
C6_LegacyKeyOverwritten ==
  Overlaid =>
    /\ \A i \in DOMAIN LegacyQueries :
         /\ HasKey(result.queries, LegacyQueries[i].key)
         /\ Lookup(result.queries, LegacyQueries[i].key)
              = InLocalStorage(LegacyQueries[i].value)
    /\ \A i \in DOMAIN SuppliedQueries :
         SuppliedQueries[i].key \notin LegacyQueryKeys =>
           /\ HasKey(result.queries, SuppliedQueries[i].key)
           /\ Lookup(result.queries, SuppliedQueries[i].key) = SuppliedQueries[i].value

(***************************************************************************)
(* C6 (amended): the output query map holds, at the id of every entry of   *)
(* the legacy query map, a legacy entry with that id stamped               *)
(* inLocalStorage = true (the last one Object.values reads), overwriting   *)
(* a server query stored under that id or being inserted; server queries   *)
(* whose key is not the id of a legacy entry are as supplied. When every   *)
(* legacy entry is stored under its own id, this is the claim.             *)
(***************************************************************************)
C6_LegacyIdOverwritten ==
  Overlaid =>
    /\ \A q \in LegacyQueryIds :
         /\ HasKey(result.queries, q)
         /\ Lookup(result.queries, q) = InLocalStorage(LastLegacyQuery(q))
    /\ \A i \in DOMAIN SuppliedQueries :
         SuppliedQueries[i].key \notin LegacyQueryIds =>
           /\ HasKey(result.queries, SuppliedQueries[i].key)
           /\ Lookup(result.queries, SuppliedQueries[i].key) = SuppliedQueries[i].value

\* the server's q1 is overwritten by the legacy q1, the legacy q2 is
\* inserted and the server's query 2 is left as supplied
C6_Witness ==
  /\ Overlaid
  /\ SuppliedQueries = <<ServerQuery("q1"), ServerQuery("2")>>
  /\ SqlLabOf(call.storage).queries =
       << [key |-> "q2", value |-> [id |-> "q2", status |-> "running"]],
          [key |-> "q1", value |-> [id |-> "q1", status |-> "failed"]] >>
  /\ Lookup(result.queries, "q1") = [id |-> "q1", status |-> "failed", inLocalStorage |-> TRUE]
  /\ Lookup(result.queries, "q2") = [id |-> "q2", status |-> "running", inLocalStorage |-> TRUE]
  /\ Lookup(result.queries, "2") = [id |-> "2", status |-> "success"]

\* one step of a run of calls
C10_Step ==
  /\ localStorage' # localStorage =>
       (IsCleanSlate(localStorage) /\ localStorage' = Absent)
  /\ IsCleanSlate(localStorage) => localStorage' = Absent
  /\ Overlaid => (localStorage' = localStorage /\ call'.storage = call.storage)
  /\ (Overlaid /\ call'.arg = call.arg) =>
       /\ outcome' = "returned"
       /\ Slices(result') = Slices(result)
  /\ (call.fn = "getInitialState" /\ (IsCleanSlate(call.storage) \/ ~call.storage.present)) =>
       /\ localStorage' = Absent
       /\ outcome' = "returned"
       /\ \A i \in DOMAIN result'.queryEditors :
            ~Has(result'.queryEditors[i], "inLocalStorage")
       /\ [i \in DOMAIN result'.queryEditors |-> result'.queryEditors[i].id]
            = ObjectKeys(ServerEditors(call'.arg, 1, EmptyMap))
       /\ result'.unsavedQueryEditor = EmptyObj
       /\ result'.tabHistory = ServerTabHistory(call'.arg)
       /\ result'.queries = SuppliedQueries'

(***************************************************************************)
(* C10: over consecutive calls the slot changes only by the removal a call *)
(* makes when it reads a sqlLab object with an empty queryEditors list; a  *)
(* call that reads a pending payload leaves the slot as it is, and the     *)
(* next call with the same bootstrap payload returns the same editors,     *)
(* tables, queries and tabHistory; once the slot is removed it stays       *)
(* removed and every call returns the server-only state.                   *)
(***************************************************************************)
C10_SlotChangesOnlyByRemoval == [][C10_Step]_vars

\* a call made after a call removed the slot returned the server's editors
C10_Witness ==
  /\ Returned("getInitialState")
  /\ ~call.storage.present
  /\ Len(result.queryEditors) = 2

====
